---- MODULE Spec2Model ----
(***************************************************************************)
(* DesktopImage: a daemon that watches directories for *.AppImage files    *)
(* and keeps a directory of .desktop launcher entries in step.             *)
(*                                                                         *)
(* The model follows the current program: main (src/unnamed/part_001,      *)
(* lines 301-331), package fs (src/src/fs/monitor.go, lines 1-159) and     *)
(* package config (src/src/fs/monitor.go, lines 161-362).  Goroutines are  *)
(* interleaved at their blocking points (select, channel send/receive,     *)
(* WaitGroup.Wait) and at the reads and writes of shared fields.           *)
(* Paths, file names and file contents are strings, built and taken apart  *)
(* the way the code does it.                                               *)
(***************************************************************************)
EXTENDS Naturals, Sequences, FiniteSets, TLC

VARIABLES
    file,            \* content of /etc/desktopimage/config.toml on disk
    conf,            \* the Config object cm.conf points to (set = FALSE: nil)
    callbacks,       \* cm.onChangeCallbacks: number of registered callbacks
    cmpc,            \* the goroutine cm.watch: "none", "init", "select", "send", "done"
    cmCloseCh,       \* cm.closeCh # nil
    cmq,             \* watcher.Events of the config watcher (FIFO)
    tasks,           \* callback goroutines: how many stand before each step
    loops,           \* every startWatching goroutine ever spawned, by id
    currentWatchers, \* fm.currentWatchers: AppPath -> loop whose cancel it holds
    fmCloseCh,       \* fm.closeCh: 0 is nil, else the loop that made the channel
    mainpc,          \* position of main
    mainCh,          \* the channel main is receiving on inside FManager.Close
    ctxDone,         \* main's ctx is cancelled
    exit,            \* "running", "exit0", "fatal" (log.Fatalf), "killed" (signal)
    sig,             \* "none", "pending" (delivered to sigs), "taken"
    desk,            \* the desktop entry files on disk: path -> content
    last,            \* what the latest handled directory event did
    reloadLog,       \* what the config watcher did with each event it took
    unseen,          \* changes of the configuration file no reload has looked at
    reloads,         \* successful reloads so far
    starter,         \* a goroutine running StartWatchers for a caller other than main
    nEdits,          \* config file changes made so far
    nEvents          \* AppImage directory events delivered so far

\* what most steps leave alone: the record of what the config watcher has done,
\* and the caller's StartWatchers goroutine
hist == <<reloadLog, unseen, reloads, starter>>

vars == <<file, conf, callbacks, cmpc, cmCloseCh, cmq, tasks, loops,
          currentWatchers, fmCloseCh, mainpc, mainCh, ctxDone, exit, sig,
          desk, last, reloadLog, unseen, reloads, starter, nEdits, nEvents>>

----------------------------------------------------------------------------
(* Bounds of the model. *)

MaxEdits == 2            \* changes in the configuration directory by the user
MaxEvents == 2           \* events delivered in the watched source directories
MaxEditsWithEvents == 1  \* changes in the configuration directory in a run
                         \* that also has source directory events

----------------------------------------------------------------------------
(* Strings: the library functions the code calls. *)

\* strings.HasSuffix
HasSuffix(s, suffix) ==
    /\ Len(s) >= Len(suffix)
    /\ SubSeq(s, Len(s) - Len(suffix) + 1, Len(s)) = suffix

\* strings.TrimSuffix
TrimSuffix(s, suffix) ==
    IF HasSuffix(s, suffix) THEN SubSeq(s, 1, Len(s) - Len(suffix)) ELSE s

\* index of the last "/" of s, 0 when there is none
LastSlash(s) ==
    LET idx == {i \in 1..Len(s) : SubSeq(s, i, i) = "/"}
    IN  IF idx = {} THEN 0 ELSE CHOOSE i \in idx : \A j \in idx : j <= i

\* filepath.Base, for a path that does not end in a separator
Base(path) ==
    IF path = "" THEN "." ELSE SubSeq(path, LastSlash(path) + 1, Len(path))

\* filepath.Dir, for a path that does not end in a separator
Dir(path) ==
    IF LastSlash(path) = 0 THEN "."
    ELSE IF LastSlash(path) = 1 THEN "/"
    ELSE SubSeq(path, 1, LastSlash(path) - 1)

\* filepath.Join of a directory and a file name (paths without "." and ".."
\* elements): an empty element is ignored, the rest is joined by one separator
Join(dir, name) ==
    IF dir = "" THEN name
    ELSE IF name = "" THEN dir
    ELSE IF HasSuffix(dir, "/") THEN dir \o name
    ELSE dir \o "/" \o name

\* whether sub occurs in s
Contains(s, sub) ==
    \E i \in 1..(Len(s) + 1) :
        /\ i + Len(sub) - 1 <= Len(s)
        /\ SubSeq(s, i, i + Len(sub) - 1) = sub

Suffix == ".AppImage"

----------------------------------------------------------------------------
(* Configuration values. *)

Rule(app, desktop, icon, cat) ==
    [AppPath |-> app, DesktopPath |-> desktop, IconPath |-> icon, Categories |-> cat]

Config(flag, rules) == [AutoGrantExecutable |-> flag, Watcher |-> rules]

RuleA == Rule("/a", "/b", "", "Application")
RuleC == Rule("/c", "/d", "/i.png", "Utility")
RuleBlankApp == Rule("", "/d", "", "Utility")
RuleBlankCat == Rule("/c", "/d", "", "")
\* a second rule on the source directory of RuleA, with another output directory
RuleA2 == Rule("/a", "/d", "", "Utility")

\* the directories that exist on disk; fsnotify's Add fails on any other path
DirsOnDisk == {".", "/", "/a", "/b", "/c", "/d"}

\* what toml.Unmarshal yields for the files the user may write
Configs ==
    { Config(FALSE, <<>>),
      Config(FALSE, <<RuleA>>),
      Config(TRUE, <<RuleA, RuleC>>),
      Config(FALSE, <<RuleBlankCat>>),
      Config(FALSE, <<RuleBlankApp>>) }

\* the file on disk: absent, not parseable, or parseable as one of Configs
Files ==
    {[kind |-> "absent", cfg |-> Config(FALSE, <<>>)],
     [kind |-> "malformed", cfg |-> Config(FALSE, <<>>)]}
    \cup {[kind |-> "ok", cfg |-> c] : c \in Configs}

\* createDefaultConfig writes a file of comments only: it parses to the zero Config
createDefaultConfig == [kind |-> "ok", cfg |-> Config(FALSE, <<>>)]

NilConf == [set |-> FALSE, AutoGrantExecutable |-> FALSE, Watcher |-> <<>>]

\* a check that wants every rule of the list complete
validEveryRule(c) ==
    IF ~c.set THEN FALSE
    ELSE IF Len(c.Watcher) = 0 THEN FALSE
    ELSE \A k \in DOMAIN c.Watcher :
            /\ c.Watcher[k].AppPath # ""
            /\ c.Watcher[k].DesktopPath # ""
            /\ c.Watcher[k].Categories # ""

\* a check that lets a rule without a category pass
validWithoutCategories(c) ==
    IF ~c.set THEN FALSE
    ELSE IF Len(c.Watcher) = 0 THEN FALSE
    ELSE /\ c.Watcher[1].AppPath # ""
         /\ c.Watcher[1].DesktopPath # ""

\* valid: only the rule at index 0 is looked at
valid(c) ==
    IF ~c.set THEN FALSE
    ELSE IF Len(c.Watcher) = 0 THEN FALSE
    ELSE /\ c.Watcher[1].AppPath # ""
         /\ c.Watcher[1].DesktopPath # ""
         /\ c.Watcher[1].Categories # ""

\* ConfManager.GetConfig
GetConfig == conf

----------------------------------------------------------------------------
(* Desktop entries. *)

\* the path startWatching and createDesktopFile compute for an entry
desktopFilePath(appName, watcherConfig) ==
    Join(watcherConfig.DesktopPath, appName \o ".desktop")

\* an entry that carries an Icon line whatever the rule's icon path
desktopContentWithIcon(appName, watcherConfig) ==
    "[Desktop Entry]\nType=Application\nName=" \o appName
    \o "\nExec=" \o watcherConfig.AppPath \o "/" \o appName \o Suffix
    \o "\nTerminal=false\nCategories=" \o watcherConfig.Categories \o "\n"
    \o "Icon=" \o watcherConfig.IconPath \o "\n"

\* the text createDesktopFile writes
desktopContent(appName, watcherConfig) ==
    "[Desktop Entry]\nType=Application\nName=" \o appName
    \o "\nExec=" \o watcherConfig.AppPath \o "/" \o appName \o Suffix
    \o "\nTerminal=false\nCategories=" \o watcherConfig.Categories \o "\n"
    \o (IF watcherConfig.IconPath # ""
        THEN "Icon=" \o watcherConfig.IconPath \o "\n"
        ELSE "")

\* os.WriteFile can succeed only in a directory that exists
CanWrite(path) == Dir(path) \in DirsOnDisk

\* desk with the file at path (over)written
WriteFile(d, path, content) ==
    [p \in (DOMAIN d) \cup {path} |-> IF p = path THEN content ELSE d[p]]

\* desk with the file at path removed
RemoveFile(d, path) == [p \in (DOMAIN d) \ {path} |-> d[p]]

----------------------------------------------------------------------------
(* Events. *)

configPath == "/etc/desktopimage/config.toml"

Event(name, op) == [Name |-> name, Op |-> op]

\* the directory events of the model of the whole program: create and remove
\* of an AppImage, and in /a a write to it
AppEvents(dir) ==
    {Event(Join(dir, "Foo.AppImage"), op) : op \in {{"Create"}, {"Remove"}}}
    \cup (IF dir = "/a" THEN {Event(Join(dir, "Foo.AppImage"), {"Write"})} ELSE {})

\* a map with no key: no file on disk, no entry in fm.currentWatchers
EmptyMap == [p \in {} |-> 0]

NoStep == [loop |-> 0, ev |-> Event("", {}), did |-> "none", refresh |-> "", dbok |-> TRUE]

----------------------------------------------------------------------------
(* Initial state: the process has just been started; the user's file is in *)
(* any state.                                                              *)

Init ==
    /\ file \in Files
    /\ conf = NilConf
    /\ callbacks = 0
    /\ cmpc = "none"
    /\ cmCloseCh = FALSE
    /\ cmq = <<>>
    /\ tasks = [cancel |-> 0, spawn |-> 0]
    /\ loops = <<>>
    /\ currentWatchers = EmptyMap
    /\ fmCloseCh = 0
    /\ mainpc = "NewConfigManager"
    /\ mainCh = 0
    /\ ctxDone = FALSE
    /\ exit = "running"
    /\ sig = "none"
    /\ desk = EmptyMap
    /\ last = NoStep
    /\ reloadLog = <<>>
    /\ unseen = 0
    /\ reloads = 0
    /\ starter = "none"
    /\ nEdits = 0
    /\ nEvents = 0

Running == exit = "running"

\* a new startWatching goroutine: go fm.startWatching(ctx, watcher).  gen, seen,
\* did and failed record its history: the reload it was spawned after, the
\* events delivered to it, the events it has handled, whether a write or the
\* removal of an existing entry has failed in it
NewLoop(rule, ctx) ==
    [rule |-> rule, ctx |-> ctx, cancelled |-> FALSE, pc |-> "init", ch |-> 0,
     q |-> <<>>, gen |-> reloads, seen |-> <<>>, did |-> <<>>, failed |-> FALSE]

\* ctx.Done() is ready for the loop
Done(l) == IF l.ctx = "main" THEN ctxDone ELSE l.cancelled

\* the loop is in its select, subscribed to its source directory
Active(l) == l.pc = "select"

ActiveLoops == {i \in DOMAIN loops : Active(loops[i])}

----------------------------------------------------------------------------
(* main *)

\* config.NewConfigManager(ctx), and main's log.Fatalf when it returns an error
NewConfigManager ==
    /\ Running /\ mainpc = "NewConfigManager"
    /\ LET onDisk == IF file.kind = "absent" THEN createDefaultConfig ELSE file
           config == [set |-> TRUE,
                      AutoGrantExecutable |-> onDisk.cfg.AutoGrantExecutable,
                      Watcher |-> onDisk.cfg.Watcher]
       IN  /\ file' = onDisk
           /\ IF onDisk.kind = "malformed"
              THEN \* toml.Unmarshal fails: main logs it with Fatalf
                   /\ exit' = "fatal"
                   /\ UNCHANGED <<conf, cmpc, mainpc>>
              ELSE IF ~valid(config)
              THEN \* incomplete: cm.conf stays nil and cm.watch is not started
                   /\ mainpc' = "NewFsManager"
                   /\ UNCHANGED <<conf, cmpc, exit>>
              ELSE /\ conf' = config
                   /\ cmpc' = "init"
                   /\ mainpc' = "NewFsManager"
                   /\ UNCHANGED exit
    /\ UNCHANGED <<callbacks, cmCloseCh, cmq, tasks, loops, currentWatchers,
                   fmCloseCh, mainCh, ctxDone, sig, desk, last, hist,
                   nEdits, nEvents>>

\* ConfManager.AddCallbacks
AddCallbacks(n) == callbacks + n

\* fs.NewFsManager(configManager): registers the reconciler
NewFsManager ==
    /\ Running /\ mainpc = "NewFsManager"
    /\ callbacks' = AddCallbacks(1)
    /\ mainpc' = "StartWatchers"
    /\ UNCHANGED <<file, conf, cmpc, cmCloseCh, cmq, tasks, loops, currentWatchers,
                   fmCloseCh, mainCh, ctxDone, exit, sig, desk, last, hist, nEdits,
                   nEvents>>

\* the loops one pass over rules spawns, each with context ctx
SpawnAll(rules, ctx) == [i \in 1..Len(rules) |-> NewLoop(rules[i], ctx)]

\* FManager.StartWatchers(ctx) up to wg.Wait()
StartWatchers ==
    /\ Running /\ mainpc = "StartWatchers"
    /\ LET cf == GetConfig
       IN  IF ~cf.set
           THEN /\ mainpc' = "signal"
                /\ UNCHANGED loops
           ELSE /\ loops' = loops \o SpawnAll(cf.Watcher, "main")
                /\ mainpc' = "wgWait"
    /\ UNCHANGED <<file, conf, callbacks, cmpc, cmCloseCh, cmq, tasks,
                   currentWatchers, fmCloseCh, mainCh, ctxDone, exit, sig, desk,
                   last, hist, nEdits, nEvents>>

\* the loops StartWatchers waits for
StartedByMain == {i \in DOMAIN loops : loops[i].ctx = "main"}

\* wg.Wait() in StartWatchers returns once every loop it spawned has returned
WgWait ==
    /\ Running /\ mainpc = "wgWait"
    /\ \A i \in StartedByMain : loops[i].pc = "done"
    /\ mainpc' = "signal"
    /\ UNCHANGED <<file, conf, callbacks, cmpc, cmCloseCh, cmq, tasks, loops,
                   currentWatchers, fmCloseCh, mainCh, ctxDone, exit, sig, desk,
                   last, hist, nEdits, nEvents>>

\* signal.Notify has been called: main stands at <-sigs
Notified == mainpc \in {"signal", "cmClose", "cmRecv", "fmClose", "fmRecv", "closed"}

\* the operating system delivers SIGINT or SIGTERM, at any moment after main
\* has called StartWatchers.  Before signal.Notify the Go runtime's default
\* applies: the process is killed by the signal.
Signal ==
    /\ Running /\ sig = "none"
    /\ mainpc \notin {"NewConfigManager", "NewFsManager", "StartWatchers"}
    /\ IF Notified
       THEN sig' = "pending" /\ UNCHANGED exit
       ELSE sig' = "taken" /\ exit' = "killed"
    /\ UNCHANGED <<file, conf, callbacks, cmpc, cmCloseCh, cmq, tasks, loops,
                   currentWatchers, fmCloseCh, mainpc, mainCh, ctxDone, desk,
                   last, hist, nEdits, nEvents>>

\* <-sigs; cancel()
Shutdown ==
    /\ Running /\ mainpc = "signal" /\ sig = "pending"
    /\ sig' = "taken"
    /\ ctxDone' = TRUE
    /\ mainpc' = "cmClose"
    /\ UNCHANGED <<file, conf, callbacks, cmpc, cmCloseCh, cmq, tasks, loops,
                   currentWatchers, fmCloseCh, mainCh, exit, desk, last, hist, nEdits,
                   nEvents>>

\* ConfManager.Close: returns at once when cm.closeCh is nil
ConfManagerClose ==
    /\ Running /\ mainpc = "cmClose"
    /\ mainpc' = IF cmCloseCh THEN "cmRecv" ELSE "fmClose"
    /\ UNCHANGED <<file, conf, callbacks, cmpc, cmCloseCh, cmq, tasks, loops,
                   currentWatchers, fmCloseCh, mainCh, ctxDone, exit, sig, desk,
                   last, hist, nEdits, nEvents>>

\* <-cm.closeCh meets the config watcher's cm.closeCh <- struct{}{}
ConfManagerRecv ==
    /\ Running /\ mainpc = "cmRecv" /\ cmpc = "send"
    /\ cmpc' = "done"
    /\ mainpc' = "fmClose"
    /\ UNCHANGED <<file, conf, callbacks, cmCloseCh, cmq, tasks, loops,
                   currentWatchers, fmCloseCh, mainCh, ctxDone, exit, sig, desk,
                   last, hist, nEdits, nEvents>>

\* FManager.Close: returns at once when fm.closeCh is nil
FManagerClose ==
    /\ Running /\ mainpc = "fmClose"
    /\ IF fmCloseCh = 0
       THEN /\ mainpc' = "closed"
            /\ UNCHANGED mainCh
       ELSE /\ mainpc' = "fmRecv"
            /\ mainCh' = fmCloseCh
    /\ UNCHANGED <<file, conf, callbacks, cmpc, cmCloseCh, cmq, tasks, loops,
                   currentWatchers, fmCloseCh, ctxDone, exit, sig, desk, last, hist,
                   nEdits, nEvents>>

\* <-fm.closeCh meets one loop's fm.closeCh <- struct{}{}: that loop returns
FManagerRecv(i) ==
    /\ Running /\ mainpc = "fmRecv"
    /\ loops[i].pc = "send" /\ loops[i].ch = mainCh
    /\ loops' = [loops EXCEPT ![i].pc = "done"]
    /\ mainpc' = "closed"
    /\ UNCHANGED <<file, conf, callbacks, cmpc, cmCloseCh, cmq, tasks,
                   currentWatchers, fmCloseCh, mainCh, ctxDone, exit, sig, desk, last,
                   hist, nEdits, nEvents>>

\* main returns after fsManager.Close(): the process exits with status 0
MainReturn ==
    /\ Running /\ mainpc = "closed"
    /\ mainpc' = "exited"
    /\ exit' = "exit0"
    /\ UNCHANGED <<file, conf, callbacks, cmpc, cmCloseCh, cmq, tasks, loops,
                   currentWatchers, fmCloseCh, mainCh, ctxDone, sig, desk, last,
                   hist, nEdits, nEvents>>

----------------------------------------------------------------------------
(* package config: the goroutine cm.watch *)

\* cm.watch up to its select: subscribes to the configuration directory
\* (NewConfigManager has made sure it exists) and makes cm.closeCh
WatchInit ==
    /\ Running /\ cmpc = "init"
    /\ cmCloseCh' = TRUE
    /\ cmpc' = "select"
    /\ UNCHANGED <<file, conf, callbacks, cmq, tasks, loops, currentWatchers,
                   fmCloseCh, mainpc, mainCh, ctxDone, exit, sig, desk, last, hist,
                   nEdits, nEvents>>

\* case <-ctx.Done(): the watcher goes to send on cm.closeCh
WatchDone ==
    /\ Running /\ cmpc = "select" /\ ctxDone
    /\ cmpc' = "send"
    /\ UNCHANGED <<file, conf, callbacks, cmCloseCh, cmq, tasks, loops,
                   currentWatchers, fmCloseCh, mainpc, mainCh, ctxDone, exit, sig,
                   desk, last, reloadLog, unseen, reloads, starter, nEdits, nEvents>>

\* a filter that looks at the kind of the event only
QualifiesAnyFile(event) == event.Op \cap {"Write", "Create"} # {}

\* the filter of cm.watch: a write or create of the configuration file
Qualifies(event) ==
    /\ event.Op \cap {"Write", "Create"} # {}
    /\ Base(event.Name) = Base(configPath)

\* a reload that takes a file it cannot parse for an empty configuration
reloadFailsOnlyWhenAbsent(f) == f.kind = "absent"

\* ConfManager.reload: whether it returns an error for what is on disk
reloadFails(f) == f.kind \in {"absent", "malformed"}

\* ConfManager.reload on success: the fields of the Config cm.conf points to
\* are assigned
reload(c, f) ==
    [c EXCEPT !.AutoGrantExecutable = f.cfg.AutoGrantExecutable,
              !.Watcher = f.cfg.Watcher]

\* a watcher that reloads and starts no callback
DispatchNone(t, n) == t

\* for _, callback := range cm.onChangeCallbacks { go callback(cm.conf) }: one
\* goroutine more per registered callback, each about to run reloadWatchers
Dispatch(t, n) == [t EXCEPT !.cancel = @ + n]

\* case event := <-watcher.Events
WatchEvent ==
    /\ Running /\ cmpc = "select" /\ cmq # <<>>
    /\ cmq' = Tail(cmq)
    /\ IF ~Qualifies(Head(cmq))
       THEN /\ reloadLog' = Append(reloadLog, "ignored")
            /\ UNCHANGED <<conf, tasks, unseen, reloads, starter>>
       ELSE IF reloadFails(file)
       THEN \* the error is logged
            /\ reloadLog' = Append(reloadLog, "failed")
            /\ unseen' = 0
            /\ UNCHANGED <<conf, tasks, reloads, starter>>
       ELSE /\ conf' = reload(conf, file)
            \* for _, callback := range cm.onChangeCallbacks { go callback(cm.conf) }
            /\ tasks' = Dispatch(tasks, callbacks)
            /\ reloadLog' = Append(reloadLog, "ok")
            /\ unseen' = 0
            /\ reloads' = reloads + 1
            /\ UNCHANGED starter
    /\ UNCHANGED <<file, callbacks, cmpc, cmCloseCh, loops, currentWatchers,
                   fmCloseCh, mainpc, mainCh, ctxDone, exit, sig, desk, last,
                   nEdits, nEvents>>

\* the user's changes the model still follows
MayEdit ==
    /\ nEdits < MaxEdits
    /\ nEvents > 0 => nEdits < MaxEditsWithEvents

\* the kernel queues an event only for a watcher that is subscribed and reading
Deliver(q, event) == IF cmpc = "select" THEN Append(q, event) ELSE q

\* the user changes the configuration file (or removes it)
Edit(f) ==
    /\ Running /\ MayEdit
    /\ mainpc # "NewConfigManager"    \* earlier changes are Init's choice of file
    /\ f.kind = "absent" => file.kind # "absent"
    /\ file' = f
    /\ nEdits' = nEdits + 1
    /\ cmq' = Deliver(cmq, Event(configPath,
                 IF f.kind = "absent" THEN {"Remove"}
                 ELSE IF file.kind = "absent" THEN {"Create"} ELSE {"Write"}))
    /\ unseen' = IF f.kind = "absent" THEN unseen ELSE unseen + 1
    /\ UNCHANGED <<conf, callbacks, cmpc, cmCloseCh, tasks, loops, currentWatchers,
                   fmCloseCh, mainpc, mainCh, ctxDone, exit, sig, desk, last,
                   reloadLog, reloads, starter, nEvents>>

\* what else happens in the configuration directory: another file is written,
\* the mode of the configuration file is changed
OtherEvents ==
    {Event(Join(Dir(configPath), "other.toml"), {"Write"}),
     Event(configPath, {"Chmod"})}

\* something else than a change of the configuration file's content happens
EditOther ==
    /\ Running /\ MayEdit
    /\ cmpc = "select"
    /\ nEdits' = nEdits + 1
    /\ \E event \in OtherEvents : cmq' = Deliver(cmq, event)
    /\ UNCHANGED <<file, conf, callbacks, cmpc, cmCloseCh, tasks, loops,
                   currentWatchers, fmCloseCh, mainpc, mainCh, ctxDone, exit, sig,
                   desk, last, hist, nEvents>>

----------------------------------------------------------------------------
(* package fs: the reconciler, run by each callback goroutine *)

\* the loops whose cancel function fm.currentWatchers holds
Held == {currentWatchers[k] : k \in DOMAIN currentWatchers}

\* FManager.reloadWatchers, first half: cancel what the map holds, and
\* replace the map by an empty one
reloadWatchersCancel ==
    /\ Running /\ tasks.cancel > 0
    /\ loops' = [i \in DOMAIN loops |->
                    IF i \in Held THEN [loops[i] EXCEPT !.cancelled = TRUE]
                    ELSE loops[i]]
    /\ currentWatchers' = EmptyMap
    /\ tasks' = [cancel |-> tasks.cancel - 1, spawn |-> tasks.spawn + 1]
    /\ UNCHANGED <<file, conf, callbacks, cmpc, cmCloseCh, cmq, fmCloseCh, mainpc,
                   mainCh, ctxDone, exit, sig, desk, last, hist,
                   nEdits, nEvents>>

\* fm.currentWatchers after the second loop of reloadWatchers over rules, the
\* loop of rules[i] getting the id base + i: a later rule with the same
\* AppPath overwrites the entry of an earlier one
Registered(cw, rules, base) ==
    LET keys == {rules[i].AppPath : i \in DOMAIN rules}
        lastOf(k) == CHOOSE i \in DOMAIN rules :
                        /\ rules[i].AppPath = k
                        /\ \A j \in DOMAIN rules : rules[j].AppPath = k => j <= i
    IN  [k \in (DOMAIN cw) \cup keys |->
            IF k \in keys THEN base + lastOf(k) ELSE cw[k]]

\* FManager.reloadWatchers, second half: one context, one map entry and one
\* goroutine per rule of the Config the callback was handed (the shared object)
reloadWatchersSpawn ==
    /\ Running /\ tasks.spawn > 0
    /\ loops' = loops \o SpawnAll(conf.Watcher, "own")
    /\ currentWatchers' = Registered(currentWatchers, conf.Watcher, Len(loops))
    /\ tasks' = [tasks EXCEPT !.spawn = @ - 1]
    /\ UNCHANGED <<file, conf, callbacks, cmpc, cmCloseCh, cmq, fmCloseCh, mainpc,
                   mainCh, ctxDone, exit, sig, desk, last, hist,
                   nEdits, nEvents>>

----------------------------------------------------------------------------
(* package fs: the goroutine startWatching *)

\* startWatching up to its select: fsnotify.NewWatcher, watcher.Add (Fatalf
\* when the directory cannot be watched), fm.closeCh = make(chan struct{})
startWatchingInit(i) ==
    /\ Running /\ loops[i].pc = "init"
    /\ IF loops[i].rule.AppPath \in DirsOnDisk
       THEN /\ loops' = [loops EXCEPT ![i].pc = "select"]
            /\ fmCloseCh' = i
            /\ UNCHANGED exit
       ELSE /\ exit' = "fatal"
            /\ UNCHANGED <<loops, fmCloseCh>>
    /\ UNCHANGED <<file, conf, callbacks, cmpc, cmCloseCh, cmq, tasks,
                   currentWatchers, mainpc, mainCh, ctxDone, sig, desk, last, hist,
                   nEdits, nEvents>>

\* case <-ctx.Done(): the loop goes to send on the channel fm.closeCh names now
startWatchingDone(i) ==
    /\ Running /\ loops[i].pc = "select" /\ Done(loops[i])
    /\ loops' = [loops EXCEPT ![i].pc = "send", ![i].ch = fmCloseCh]
    /\ UNCHANGED <<file, conf, callbacks, cmpc, cmCloseCh, cmq, tasks,
                   currentWatchers, fmCloseCh, mainpc, mainCh, ctxDone, exit, sig,
                   desk, last, reloadLog, unseen, reloads, starter, nEdits, nEvents>>

\* a loop that looks for a remove or a rename before it looks for a create
HandlingRemoveFirst(event) ==
    IF event.Op \cap {"Remove", "Rename"} # {}
    THEN IF HasSuffix(event.Name, Suffix) THEN "remove" ELSE "none"
    ELSE IF "Create" \in event.Op
    THEN IF HasSuffix(event.Name, Suffix) THEN "create" ELSE "none"
    ELSE "none"

\* which branch of the select's event case an event takes
Handling(event) ==
    IF "Create" \in event.Op
    THEN IF HasSuffix(event.Name, Suffix) THEN "create" ELSE "none"
    ELSE IF event.Op \cap {"Remove", "Rename"} # {}
    THEN IF HasSuffix(event.Name, Suffix) THEN "remove" ELSE "none"
    ELSE "none"

\* appName of an event
AppName(event) == TrimSuffix(Base(event.Name), Suffix)

\* a refresh run on the rule's source directory
updateDesktopDatabaseOfSource(watcherConfig) == watcherConfig.AppPath

\* fm.updateDesktopDatabase(watcherConfig): the directory the utility is run on
updateDesktopDatabase(watcherConfig) == watcherConfig.DesktopPath

\* the event the loop takes from watcher.Events: the oldest one
NextEvent(q) == Head(q)

\* a loop that returns when the handling of an event has failed
HandledOrReturned(l, failure) ==
    [l EXCEPT !.q = Tail(@),
              !.did = Append(@, NextEvent(l.q)),
              !.failed = @ \/ failure,
              !.pc = IF failure THEN "done" ELSE @]

\* the loop's record after it has handled the event it took: it goes back to
\* its select, whatever happened
Handled(l, failure) ==
    [l EXCEPT !.q = Tail(@),
              !.did = Append(@, NextEvent(l.q)),
              !.failed = @ \/ failure]

\* case event := <-watcher.Events, a create of an AppImage: createDesktopFile,
\* and on success updateDesktopDatabase; os.WriteFile and the utility may fail
startWatchingCreate(i, ok, dbok) ==
    /\ Running /\ loops[i].pc = "select" /\ loops[i].q # <<>>
    /\ LET event == NextEvent(loops[i].q)
           rule == loops[i].rule
           path == desktopFilePath(AppName(event), rule)
       IN  /\ Handling(event) = "create"
           /\ ok => CanWrite(path)
           /\ ~ok => dbok
           /\ desk' = IF ok THEN WriteFile(desk, path, desktopContent(AppName(event), rule))
                      ELSE desk
           /\ last' = [loop |-> i, ev |-> event,
                       did |-> IF ok THEN "write" ELSE "writeFailed",
                       refresh |-> IF ok THEN updateDesktopDatabase(rule) ELSE "",
                       dbok |-> dbok]
           /\ loops' = [loops EXCEPT ![i] = Handled(@, ~ok)]
    /\ UNCHANGED <<file, conf, callbacks, cmpc, cmCloseCh, cmq, tasks,
                   currentWatchers, fmCloseCh, mainpc, mainCh, ctxDone, exit, sig,
                   nEdits, nEvents, hist>>

\* case event := <-watcher.Events, a remove or rename of an AppImage: os.Remove
\* of the entry, and on success updateDesktopDatabase; os.Remove fails when
\* the entry does not exist, and may fail when it does
startWatchingRemove(i, ok, dbok) ==
    /\ Running /\ loops[i].pc = "select" /\ loops[i].q # <<>>
    /\ LET event == NextEvent(loops[i].q)
           rule == loops[i].rule
           path == desktopFilePath(AppName(event), rule)
       IN  /\ Handling(event) = "remove"
           /\ ok => path \in DOMAIN desk
           /\ ~ok => dbok
           /\ desk' = IF ok THEN RemoveFile(desk, path) ELSE desk
           /\ last' = [loop |-> i, ev |-> event,
                       did |-> IF ok THEN "remove" ELSE "removeFailed",
                       refresh |-> IF ok THEN updateDesktopDatabase(rule) ELSE "",
                       dbok |-> dbok]
           /\ loops' = [loops EXCEPT ![i] = Handled(@, ~ok /\ path \in DOMAIN desk)]
    /\ UNCHANGED <<file, conf, callbacks, cmpc, cmCloseCh, cmq, tasks,
                   currentWatchers, fmCloseCh, mainpc, mainCh, ctxDone, exit, sig,
                   nEdits, nEvents, hist>>

\* case event := <-watcher.Events, any other event: nothing is done
startWatchingSkip(i) ==
    /\ Running /\ loops[i].pc = "select" /\ loops[i].q # <<>>
    /\ Handling(NextEvent(loops[i].q)) = "none"
    /\ last' = [loop |-> i, ev |-> NextEvent(loops[i].q), did |-> "none",
                refresh |-> "", dbok |-> TRUE]
    /\ loops' = [loops EXCEPT ![i] = Handled(@, FALSE)]
    /\ UNCHANGED <<file, conf, callbacks, cmpc, cmCloseCh, cmq, tasks,
                   currentWatchers, fmCloseCh, mainpc, mainCh, ctxDone, exit, sig,
                   desk, nEdits, nEvents, hist>>

\* the loops subscribed to dir and reading their Events channel
Subscribed(dir) == {i \in ActiveLoops : loops[i].rule.AppPath = dir}

\* something happens to a file of a watched source directory: fsnotify queues
\* the event, in order, for every watcher subscribed to the directory
AppEvent(event) ==
    /\ Running /\ nEvents < MaxEvents /\ nEdits <= MaxEditsWithEvents
    /\ Subscribed(Dir(event.Name)) # {}
    /\ nEvents' = nEvents + 1
    /\ loops' = [i \in DOMAIN loops |->
                    IF i \in Subscribed(Dir(event.Name))
                    THEN [loops[i] EXCEPT !.q = Append(@, event),
                                          !.seen = Append(@, event)]
                    ELSE loops[i]]
    /\ UNCHANGED <<file, conf, callbacks, cmpc, cmCloseCh, cmq, tasks,
                   currentWatchers, fmCloseCh, mainpc, mainCh, ctxDone, exit, sig,
                   desk, last, hist, nEdits>>

----------------------------------------------------------------------------

SourceDirs == {"/a", "/c"}

Next ==
    \/ NewConfigManager
    \/ NewFsManager
    \/ StartWatchers
    \/ WgWait
    \/ Signal
    \/ Shutdown
    \/ ConfManagerClose
    \/ ConfManagerRecv
    \/ FManagerClose
    \/ \E i \in DOMAIN loops : FManagerRecv(i)
    \/ MainReturn
    \/ WatchInit
    \/ WatchDone
    \/ WatchEvent
    \/ \E f \in Files : Edit(f)
    \/ EditOther
    \/ reloadWatchersCancel
    \/ reloadWatchersSpawn
    \/ \E i \in DOMAIN loops : startWatchingInit(i)
    \/ \E i \in DOMAIN loops : startWatchingDone(i)
    \/ \E i \in DOMAIN loops, ok, dbok \in BOOLEAN : startWatchingCreate(i, ok, dbok)
    \/ \E i \in DOMAIN loops, ok, dbok \in BOOLEAN : startWatchingRemove(i, ok, dbok)
    \/ \E i \in DOMAIN loops : startWatchingSkip(i)
    \/ \E d \in SourceDirs : \E event \in AppEvents(d) : AppEvent(event)

Spec == Init /\ [][Next]_vars

----------------------------------------------------------------------------
(* The watcher pool on its own: a caller that holds a usable configuration, *)
(* runs StartWatchers(ctx) in a goroutine of its own, and shuts the pool    *)
(* down the way main does, by cancel() and then FManager.Close().  The      *)
(* configuration is not changed meanwhile.                                  *)

UsableConfigs == {c \in Configs : valid([set |-> TRUE,
                                         AutoGrantExecutable |-> c.AutoGrantExecutable,
                                         Watcher |-> c.Watcher])}

\* the directory events of the pool's model
PoolEvents(dir) ==
    {Event(Join(dir, "Foo.AppImage"), op) :
        op \in {{"Create"}, {"Remove"}, {"Rename"}, {"Write"}, {"Chmod"},
                {"Create", "Rename"}}}
    \cup {Event(Join(dir, "Foo.txt"), op) : op \in {{"Create"}, {"Remove"}}}
    \cup {Event(Join(dir, "Bar.AppImage"), {"Create"})}

PoolInit ==
    /\ \E c \in UsableConfigs :
          /\ file = [kind |-> "ok", cfg |-> c]
          /\ conf = [set |-> TRUE, AutoGrantExecutable |-> c.AutoGrantExecutable,
                     Watcher |-> c.Watcher]
    /\ callbacks = 1
    /\ cmpc = "none"
    /\ cmCloseCh = FALSE
    /\ cmq = <<>>
    /\ tasks = [cancel |-> 0, spawn |-> 0]
    /\ loops = <<>>
    /\ currentWatchers = EmptyMap
    /\ fmCloseCh = 0
    /\ mainpc = "StartWatchers"
    /\ mainCh = 0
    /\ ctxDone = FALSE
    /\ exit = "running"
    /\ sig = "none"
    /\ desk = EmptyMap
    /\ last = NoStep
    /\ reloadLog = <<>>
    /\ unseen = 0
    /\ reloads = 0
    /\ starter = "none"
    /\ nEdits = 0
    /\ nEvents = 0

\* go fm.StartWatchers(ctx): the goroutine spawns the loops and waits for them
PoolStart ==
    /\ mainpc = "StartWatchers"
    /\ loops' = loops \o SpawnAll(GetConfig.Watcher, "main")
    /\ starter' = "wgWait"
    /\ mainpc' = "cancel"
    /\ UNCHANGED <<file, conf, callbacks, cmpc, cmCloseCh, cmq, tasks,
                   currentWatchers, fmCloseCh, mainCh, ctxDone, exit, sig, desk,
                   last, reloadLog, unseen, reloads, nEdits, nEvents>>

\* wg.Wait() returns in the caller's StartWatchers goroutine
PoolWgWait ==
    /\ starter = "wgWait"
    /\ \A i \in StartedByMain : loops[i].pc = "done"
    /\ starter' = "returned"
    /\ UNCHANGED <<file, conf, callbacks, cmpc, cmCloseCh, cmq, tasks, loops,
                   currentWatchers, fmCloseCh, mainpc, mainCh, ctxDone, exit, sig,
                   desk, last, reloadLog, unseen, reloads, nEdits, nEvents>>

\* the caller cancels the pool's context once the pool is up (every loop has
\* subscribed), and goes on to FManager.Close()
PoolCancel ==
    /\ mainpc = "cancel"
    /\ \A i \in DOMAIN loops : loops[i].pc # "init"
    /\ ctxDone' = TRUE
    /\ mainpc' = "fmClose"
    /\ UNCHANGED <<file, conf, callbacks, cmpc, cmCloseCh, cmq, tasks, loops,
                   currentWatchers, fmCloseCh, mainCh, exit, sig, desk, last, hist,
                   nEdits, nEvents>>

PoolNext ==
    \/ PoolStart
    \/ PoolWgWait
    \/ PoolCancel
    \/ FManagerClose
    \/ \E i \in DOMAIN loops : FManagerRecv(i)
    \/ \E i \in DOMAIN loops : startWatchingInit(i)
    \/ \E i \in DOMAIN loops : startWatchingDone(i)
    \/ \E i \in DOMAIN loops, ok, dbok \in BOOLEAN : startWatchingCreate(i, ok, dbok)
    \/ \E i \in DOMAIN loops, ok, dbok \in BOOLEAN : startWatchingRemove(i, ok, dbok)
    \/ \E i \in DOMAIN loops : startWatchingSkip(i)
    \/ \E d \in SourceDirs : \E event \in PoolEvents(d) : AppEvent(event)

PoolSpec == PoolInit /\ [][PoolNext]_vars

----------------------------------------------------------------------------
(* What the claims speak of. *)

\* a loop that has been started and whose context is not cancelled
Live(l) == l.pc \in {"init", "select"} /\ ~Done(l)

LiveLoops == {i \in DOMAIN loops : Live(loops[i])}

\* the live loops are exactly one per rule of the configuration c
OnePerRule(c) ==
    /\ Cardinality(LiveLoops) = Len(c.Watcher)
    /\ \A k \in DOMAIN c.Watcher :
          Cardinality({i \in LiveLoops : loops[i].rule = c.Watcher[k]}) = 1

\* every reload has been reconciled and every spawned loop has subscribed
Reconciled ==
    /\ Running
    /\ mainpc \notin {"NewConfigManager", "NewFsManager", "StartWatchers"}
    /\ reloads > 0
    /\ cmq = <<>>
    /\ tasks.cancel = 0 /\ tasks.spawn = 0
    /\ \A i \in DOMAIN loops : loops[i].pc # "init"

\* C1: once a successful reload has been reconciled, the loops that run are
\* exactly one per rule of the new configuration: the loops of before the
\* reload, those of StartWatchers included, have been cancelled.
C1_ReloadLeavesOneLoopPerRule == Reconciled => OnePerRule(conf)

\* the caller's shutdown is over: the context is cancelled, FManager.Close has
\* returned, and every loop has seen the cancellation
PoolShutDown ==
    /\ ctxDone
    /\ mainpc = "closed"
    /\ \A i \in DOMAIN loops : loops[i].pc \in {"send", "done"}

\* C2: started with a usable configuration of N rules, the pool runs N loops,
\* one per rule; once its context is cancelled and the shutdown is over, no
\* loop is active and each of the N loops has returned.
C2_StartThenCancel ==
    /\ (starter # "none" /\ ~ctxDone /\ \A i \in DOMAIN loops : loops[i].pc # "init")
          => OnePerRule(conf)
    /\ PoolShutDown
          => /\ ActiveLoops = {}
             /\ Len(loops) = Len(conf.Watcher)
             /\ \A i \in DOMAIN loops : loops[i].pc = "done"

\* C3: a termination signal is always handled by the process: it ends with
\* status 0, after the config watcher and every watch loop have returned.
C3_GracefulShutdown ==
    (sig # "none" /\ ~Running)
        => /\ exit = "exit0"
           /\ cmpc \in {"none", "done"}
           /\ \A i \in DOMAIN loops : loops[i].pc = "done"

\* the AppImage names of the model's events
AppNames == {"Foo", "Bar"}

\* how the claims read an event of rule's source directory for X.AppImage:
\* "create" when its kind includes create, "remove" when it is a remove or a
\* rename, "none" otherwise and for any other file
KindFor(event, X, rule) ==
    IF event.Name # rule.AppPath \o "/" \o X \o ".AppImage" THEN "none"
    ELSE IF "Create" \in event.Op THEN "create"
    ELSE IF event.Op \cap {"Remove", "Rename"} # {} THEN "remove"
    ELSE "none"

\* the kind of the last event of seq that is a create or a remove of X.AppImage
LastKind(seq, X, rule) ==
    LET idx == {k \in DOMAIN seq : KindFor(seq[k], X, rule) # "none"}
    IN  IF idx = {} THEN "none"
        ELSE KindFor(seq[CHOOSE k \in idx : \A j \in idx : j <= k], X, rule)

\* where the entry of X.AppImage is expected
EntryPath(X, rule) == rule.DesktopPath \o "/" \o X \o ".desktop"

\* C4: a loop takes its events in the order of delivery, none skipped and none
\* merged; so, when no write or removal has failed in it, after whatever it
\* has handled so far X.desktop exists exactly if the last create or
\* remove/rename of X.AppImage it handled was a create.
C4_EventsInOrder ==
    \A i \in DOMAIN loops :
        /\ loops[i].did \o loops[i].q = loops[i].seen
        /\ \A X \in AppNames :
              (~loops[i].failed /\ LastKind(loops[i].did, X, loops[i].rule) # "none")
                 => (EntryPath(X, loops[i].rule) \in DOMAIN desk
                        <=> LastKind(loops[i].did, X, loops[i].rule) = "create")

\* the text has the line key=value
HasLine(content, key, value) == Contains(content, "\n" \o key \o "=" \o value \o "\n")

\* C5: the entry written on a create of X.AppImage is X.desktop in the rule's
\* output directory, with Type=Application, Name=X, Exec=<source>/X.AppImage,
\* Terminal=false, Categories=<category>, and an Icon line exactly if the rule
\* has an icon path.
C5_EntryWritten ==
    last.did = "write" =>
        \E X \in AppNames :
            LET rule == loops[last.loop].rule
                path == EntryPath(X, rule)
            IN  /\ KindFor(last.ev, X, rule) = "create"
                /\ path \in DOMAIN desk
                /\ SubSeq(desk[path], 1, 16) = "[Desktop Entry]\n"
                /\ HasLine(desk[path], "Type", "Application")
                /\ HasLine(desk[path], "Name", X)
                /\ HasLine(desk[path], "Exec", rule.AppPath \o "/" \o X \o ".AppImage")
                /\ HasLine(desk[path], "Terminal", "false")
                /\ HasLine(desk[path], "Categories", rule.Categories)
                /\ Contains(desk[path], "\nIcon=") <=> rule.IconPath # ""
                /\ rule.IconPath # "" => HasLine(desk[path], "Icon", rule.IconPath)

\* the example: /a/Foo.AppImage has just given /b/Foo.desktop, without an icon
C5_Witness ==
    /\ last.did = "write"
    /\ last.ev = Event("/a/Foo.AppImage", {"Create"})
    /\ "/b/Foo.desktop" \in DOMAIN desk
    /\ HasLine(desk["/b/Foo.desktop"], "Exec", "/a/Foo.AppImage")
    /\ HasLine(desk["/b/Foo.desktop"], "Categories", "Application")
    /\ ~Contains(desk["/b/Foo.desktop"], "Icon=")

\* a rule set the spec calls incomplete: no rule, or a rule with a blank
\* source directory, output directory or category
Incomplete(rules) ==
    \/ Len(rules) = 0
    \/ \E k \in DOMAIN rules :
          \/ rules[k].AppPath = ""
          \/ rules[k].DesktopPath = ""
          \/ rules[k].Categories = ""

\* C6: after the reload of a file that parses but whose rule set is
\* incomplete, the process has not terminated and no loop has been started
\* for the reloaded configuration.
C6_IncompleteReloadIsInert ==
    (reloads > 0 /\ Incomplete(conf.Watcher))
        => /\ exit # "fatal"
           /\ \A i \in DOMAIN loops : ~(loops[i].ctx = "own" /\ loops[i].gen = reloads)

\* the config watcher takes a change of the configuration file while the file
\* cannot be read or parsed
FailingReloadStep ==
    /\ cmq # <<>> /\ cmq' = Tail(cmq)
    /\ Head(cmq).Name = configPath
    /\ Head(cmq).Op \cap {"Write", "Create"} # {}
    /\ file.kind \in {"absent", "malformed"}

\* C7: a reload that fails changes neither the configuration held, nor the
\* loops, nor the reconcilers under way (no callback is invoked); the process
\* goes on, and the config watcher is back in its select for the next event.
C7_FailedReloadChangesNothing ==
    [][FailingReloadStep =>
          /\ conf' = conf
          /\ tasks' = tasks
          /\ loops' = loops
          /\ currentWatchers' = currentWatchers
          /\ exit' = "running"
          /\ cmpc' = "select"]_vars

\* a reload has failed, and the watcher has then reloaded a later change
C7_Witness ==
    /\ reloadLog = <<"failed", "ok">>
    /\ conf.Watcher = <<RuleA, RuleC>>

\* loop i takes an event from its queue in this step
TakesEvent(i) ==
    /\ i \in DOMAIN loops'
    /\ loops[i].pc = "select"
    /\ Len(loops'[i].q) < Len(loops[i].q)

\* C8: whatever fails while a loop handles an event (the write, the removal,
\* the database refresh), the loop is back in its select afterwards, with the
\* rest of its queue, and the process runs on; a remove for an entry that
\* does not exist changes no file.
C8_FailureKeepsLoopRunning ==
    [][\A i \in DOMAIN loops :
          TakesEvent(i) =>
              /\ loops'[i].pc = "select"
              /\ loops'[i].q = Tail(loops[i].q)
              /\ exit' = "running"
              /\ \A X \in AppNames :
                    (/\ KindFor(Head(loops[i].q), X, loops[i].rule) = "remove"
                     /\ EntryPath(X, loops[i].rule) \notin DOMAIN desk)
                        => desk' = desk]_vars

\* a write has failed in a loop, and the loop has then handled a later event
\* with success
C8_Witness ==
    \E i \in DOMAIN loops :
        /\ loops[i].failed
        /\ last.loop = i /\ last.did \in {"write", "remove"}
        /\ loops[i].pc = "select"

\* the rule set makes a usable configuration: its first rule is complete
Usable(rules) ==
    /\ Len(rules) >= 1
    /\ rules[1].AppPath # "" /\ rules[1].DesktopPath # "" /\ rules[1].Categories # ""

\* C9: started on an absent file (the template is then on disk) or on a file
\* whose first rule is incomplete, and as long as the file is not changed,
\* the process runs on without an error (it ends only on a signal, with
\* status 0), no loop is started and no entry is written or removed.
C9_NotConfiguredIsInert ==
    (/\ mainpc # "NewConfigManager"
     /\ nEdits = 0
     /\ file.kind = "ok" /\ ~Usable(file.cfg.Watcher))
        => /\ exit \in {"running", "exit0"}
           /\ sig = "none" => Running
           /\ loops = <<>>
           /\ desk = EmptyMap
           /\ last = NoStep

\* started on a file whose only rule has no category, main waits for a signal
C9_Witness ==
    /\ mainpc = "signal"
    /\ nEdits = 0
    /\ file = [kind |-> "ok", cfg |-> Config(FALSE, <<RuleBlankCat>>)]
    /\ loops = <<>>

\* C10: while the process runs and has not been told to stop, a change of the
\* configuration file that no reload has taken yet finds a config watcher
\* (starting, or at its select) to take it, whatever the configuration the
\* process started with.
C10_ChangeReachesWatcher ==
    (Running /\ ~ctxDone /\ unseen > 0) => cmpc \in {"init", "select"}

\* the rule has a source directory, an output directory and a category
Complete(rule) ==
    rule.AppPath # "" /\ rule.DesktopPath # "" /\ rule.Categories # ""

\* C11: every loop that has been started, at startup or by a reload, runs
\* for a rule whose source directory, output directory and category are all
\* non-empty, wherever the rule stands in the rule list.
C11_LoopsHaveCompleteRules ==
    \A i \in DOMAIN loops : Complete(loops[i].rule)

----------------------------------------------------------------------------
(* The load at startup on its own, over every rule list of up to MaxRules  *)
(* rules whose fields are blank or not: NewConfigManager applies valid to  *)
(* what the file holds.                                                    *)

MaxRules == 2

LoadRules ==
    {Rule(a, d, i, c) : a \in {"", "/a"}, d \in {"", "/b"},
                        i \in {"", "/i.png"}, c \in {"", "Utility"}}

RuleLists(n) == UNION {[1..k -> LoadRules] : k \in 0..n}

LoadFiles ==
    {[kind |-> "ok", cfg |-> Config(flag, rules)] :
        flag \in BOOLEAN, rules \in RuleLists(MaxRules)}

LoadInit ==
    /\ file \in LoadFiles
    /\ conf = NilConf
    /\ callbacks = 0
    /\ cmpc = "none"
    /\ cmCloseCh = FALSE
    /\ cmq = <<>>
    /\ tasks = [cancel |-> 0, spawn |-> 0]
    /\ loops = <<>>
    /\ currentWatchers = EmptyMap
    /\ fmCloseCh = 0
    /\ mainpc = "NewConfigManager"
    /\ mainCh = 0
    /\ ctxDone = FALSE
    /\ exit = "running"
    /\ sig = "none"
    /\ desk = EmptyMap
    /\ last = NoStep
    /\ reloadLog = <<>>
    /\ unseen = 0
    /\ reloads = 0
    /\ starter = "none"
    /\ nEdits = 0
    /\ nEvents = 0

LoadNext ==
    \/ NewConfigManager
    \/ NewFsManager

LoadSpec == LoadInit /\ [][LoadNext]_vars

\* the Config value NewConfigManager hands to valid for a file
Loaded(f) ==
    [set |-> TRUE, AutoGrantExecutable |-> f.cfg.AutoGrantExecutable,
     Watcher |-> f.cfg.Watcher]

\* two files agree on whether they have a rule, and on the source directory,
\* output directory and category of their first rule
SameFirstRule(f, g) ==
    /\ (Len(f.cfg.Watcher) = 0) <=> (Len(g.cfg.Watcher) = 0)
    /\ Len(f.cfg.Watcher) > 0 =>
          /\ f.cfg.Watcher[1].AppPath = g.cfg.Watcher[1].AppPath
          /\ f.cfg.Watcher[1].DesktopPath = g.cfg.Watcher[1].DesktopPath
          /\ f.cfg.Watcher[1].Categories = g.cfg.Watcher[1].Categories

\* C12: valid says usable exactly for a non-nil configuration with at least
\* one rule whose first rule has a source directory, an output directory and
\* a category; what it said of the loaded file is what it says of any file
\* that differs only in icon paths, in the flag, or in rules after the first.
C12_ValidLooksAtFirstRule ==
    /\ ~valid(NilConf)
    /\ mainpc # "NewConfigManager" =>
          /\ conf.set <=> Usable(file.cfg.Watcher)
          /\ (cmpc = "init") <=> Usable(file.cfg.Watcher)
          /\ \A g \in LoadFiles :
                SameFirstRule(file, g) => (valid(Loaded(g)) <=> conf.set)

\* a file with the flag set, a complete first rule without icon and an
\* incomplete second rule has been found usable
C12_Witness ==
    /\ mainpc = "NewFsManager"
    /\ conf.set
    /\ file.cfg.AutoGrantExecutable
    /\ Len(file.cfg.Watcher) = 2
    /\ file.cfg.Watcher[1].IconPath = ""
    /\ ~Complete(file.cfg.Watcher[2])

\* C13: conf stands for the Config object that GetConfig returns and that
\* the callbacks are handed; once it has been handed out (it is set), no step
\* changes its rule list or its flag: a reload makes a new value and leaves
\* the one the readers hold as it was.
C13_SnapshotNeverChanges ==
    [][conf.set => conf' = conf]_vars

\* the callback goroutines whose next step reads or writes fm.currentWatchers:
\* those that have not begun reloadWatchers (range over the map, then the map
\* is replaced) and, when there are rules to register, those that are between
\* its two loops
MapAccessPending ==
    tasks.cancel + (IF Len(conf.Watcher) > 0 THEN tasks.spawn ELSE 0)

\* main is about to append to cm.onChangeCallbacks while the config watcher
\* is about to take an event whose reload succeeds and to range over the list
ListAccessesMeet ==
    /\ mainpc = "NewFsManager"
    /\ cmpc = "select" /\ cmq # <<>>
    /\ Qualifies(Head(cmq)) /\ ~reloadFails(file)

\* C14: the accesses to the map of current watchers and to the list of
\* callbacks exclude each other: never are two tasks at an access of the map
\* at once, and never is main at its append to the list while the config
\* watcher is at its iteration over it.
C14_MapAndListExclusive ==
    /\ MapAccessPending <= 1
    /\ ~ListAccessesMeet

\* loop i waits in its send on a channel nobody will receive from any more:
\* the one receive of the program, in FManager.Close, is over or is under way
\* on another channel
NeverReceived(i) ==
    /\ loops[i].pc = "send"
    /\ \/ mainpc \in {"closed", "exited"}
       \/ mainpc = "fmRecv" /\ mainCh # loops[i].ch

\* C15: a loop whose context has been cancelled, by the shutdown or by a
\* reconciliation, gets out of its loop and signals completion: it is never
\* left in its send without a receive to come.
C15_CancelledLoopsReturn ==
    \A i \in DOMAIN loops : Running => ~NeverReceived(i)

\* C16: once main has cancelled the shared context, the cancellation is there
\* to be observed by every loop that has not returned, those started by a
\* reconciliation included.
C16_ShutdownReachesEveryLoop ==
    ctxDone => \A i \in DOMAIN loops :
                   loops[i].pc \in {"init", "select"} => Done(loops[i])

\* the process may have been ended by an error of startup: the load of
\* NewConfigManager, or the subscription of a loop that StartWatchers started
StartupError ==
    \/ mainpc = "NewConfigManager"
    \/ \E i \in DOMAIN loops :
          /\ loops[i].ctx = "main" /\ loops[i].pc = "init"
          /\ loops[i].rule.AppPath \notin DirsOnDisk

\* C17: only an error of startup ends the process; an error met after it, in
\* a reload or in a loop that a reconciliation started (a source directory
\* that cannot be watched), is logged and the process runs on.
C17_OnlyStartupErrorsAreFatal ==
    exit = "fatal" => StartupError

\* the config watcher takes, in this step, an event that is not a write or a
\* create of the configuration file
TakesOtherEvent ==
    /\ cmpc = "select" /\ cmq # <<>> /\ cmq' = Tail(cmq)
    /\ \/ Head(cmq).Name # configPath
       \/ Head(cmq).Op \cap {"Write", "Create"} = {}

\* C18: an event of the configuration directory that is not a write or a
\* create of the configuration file causes no reload: the configuration
\* held, the callbacks, the reconcilers under way and the loops stay as they
\* are.
C18_OtherEventsChangeNothing ==
    [][TakesOtherEvent =>
          /\ conf' = conf
          /\ callbacks' = callbacks
          /\ tasks' = tasks
          /\ loops' = loops
          /\ currentWatchers' = currentWatchers
          /\ reloads' = reloads
          /\ reloadLog' = Append(reloadLog, "ignored")]_vars

\* with loops running, the watcher has let an event pass and has then
\* reloaded on a write of the configuration file
C18_Witness ==
    /\ reloadLog = <<"ignored", "ok">>
    /\ reloads = 1
    /\ loops # <<>>

\* C19: a successful reload starts one task per callback registered at that
\* moment, handing each the configuration just loaded from the file; none of
\* them has run when the watcher is back in its select for the next event,
\* so the watcher waits for no callback and nothing orders the tasks of one
\* reload or of two reloads.
C19_CallbacksDispatchedOnce ==
    [][reloads' = reloads + 1 =>
          /\ tasks'.cancel = tasks.cancel + callbacks
          /\ tasks'.spawn = tasks.spawn
          /\ conf'.Watcher = file.cfg.Watcher
          /\ conf'.AutoGrantExecutable = file.cfg.AutoGrantExecutable
          /\ cmpc' = "select"
          /\ loops' = loops
          /\ currentWatchers' = currentWatchers]_vars

\* the watcher has reloaded twice and is in its select again, while the
\* callback tasks of both reloads have yet to run
C19_Witness ==
    /\ reloads = 2
    /\ callbacks = 1
    /\ tasks.cancel = 2
    /\ cmpc = "select"

\* C20, as stated: whenever a loop has handled a create or a remove/rename of
\* an AppImage, it has run the refresh utility on the rule's output
\* directory, whether the write or the removal of the entry succeeded or not.
C20_RefreshOnEveryEvent ==
    last.did \in {"write", "writeFailed", "remove", "removeFailed"}
        => last.refresh = loops[last.loop].rule.DesktopPath

\* C20, amended: the loop runs the refresh utility, on the rule's output
\* directory and on nothing else, exactly when it has written or removed the
\* entry; when the write or the removal failed, and for any other event, it
\* does not run the utility.
C20_RefreshAfterSuccess ==
    /\ last.did \in {"write", "remove"}
          => last.refresh = loops[last.loop].rule.DesktopPath
    /\ last.did \in {"writeFailed", "removeFailed", "none"}
          => last.refresh = ""

\* a loop in which a write had failed has now written an entry for the rule
\* /c -> /d and refreshed /d
C20_Witness ==
    /\ last.did = "write"
    /\ last.loop \in DOMAIN loops
    /\ loops[last.loop].failed
    /\ loops[last.loop].rule.AppPath = "/c"
    /\ last.refresh = "/d"

\* the name ends in .AppImage
IsAppImage(name) ==
    /\ Len(name) >= 9
    /\ SubSeq(name, Len(name) - 8, Len(name)) = ".AppImage"

\* C21: a loop that takes an event for a file that is no AppImage, or an
\* event on an AppImage that is neither create nor remove nor rename, leaves
\* every entry as it is and runs no refresh; an event whose kind includes
\* create is handled as a create, never as a removal, whatever else its kind
\* carries.
C21_UnhandledEventsChangeNothing ==
    [][\A i \in DOMAIN loops :
          TakesEvent(i) =>
              LET event == Head(loops[i].q)
              IN  /\ (\/ ~IsAppImage(event.Name)
                      \/ event.Op \cap {"Create", "Remove", "Rename"} = {})
                        => /\ desk' = desk
                           /\ last'.did = "none"
                           /\ last'.refresh = ""
                  /\ (IsAppImage(event.Name) /\ "Create" \in event.Op)
                        => /\ last'.did \in {"write", "writeFailed"}
                           /\ DOMAIN desk \subseteq DOMAIN desk']_vars

\* a loop has let the create of Foo.txt pass, and has then written the entry
\* for an event on Foo.AppImage that is both create and rename
C21_Witness ==
    /\ last.did = "write"
    /\ last.ev = Event("/a/Foo.AppImage", {"Create", "Rename"})
    /\ last.loop \in DOMAIN loops
    /\ loops[last.loop].did = <<Event("/a/Foo.txt", {"Create"}), last.ev>>
    /\ DOMAIN desk = {"/b/Foo.desktop"}

\* the live loops that a reconciliation started
ReconcilerLoops == {i \in LiveLoops : loops[i].ctx = "own"}

\* two changes of the configuration have been reloaded, and the callbacks of
\* both have finished; every loop they started has subscribed
BothReconciled ==
    /\ Running
    /\ reloads = 2
    /\ callbacks = 1
    /\ cmq = <<>>
    /\ tasks.cancel = 0 /\ tasks.spawn = 0
    /\ \A i \in DOMAIN loops : loops[i].pc # "init"

\* C22: however the two callbacks of two reloads in quick succession have
\* interleaved, once both are over the reconciliations have left at most one
\* live loop per rule of the latest configuration, and the map of current
\* watchers holds the cancel function of every loop they left alive.
C22_TwoCallbacksLeaveOneLoopPerRule ==
    BothReconciled =>
        /\ \A k \in DOMAIN conf.Watcher :
              Cardinality({i \in ReconcilerLoops : loops[i].rule = conf.Watcher[k]}) <= 1
        /\ ReconcilerLoops \subseteq Held

----------------------------------------------------------------------------
(* The program with configurations whose rules share the source directory  *)
(* /a: started on one of them, the file is rewritten to another while the  *)
(* loops watch.  Signals are left out; the only directory event is the     *)
(* create of /a/Foo.AppImage, and no write and no refresh fails.           *)

SharedDirConfigs ==
    { Config(FALSE, <<RuleA>>),
      Config(FALSE, <<RuleA2>>),
      Config(FALSE, <<RuleA, RuleA2>>) }

SharedDirFiles == {[kind |-> "ok", cfg |-> c] : c \in SharedDirConfigs}

SharedDirInit ==
    /\ file \in SharedDirFiles
    /\ conf = NilConf
    /\ callbacks = 0
    /\ cmpc = "none"
    /\ cmCloseCh = FALSE
    /\ cmq = <<>>
    /\ tasks = [cancel |-> 0, spawn |-> 0]
    /\ loops = <<>>
    /\ currentWatchers = EmptyMap
    /\ fmCloseCh = 0
    /\ mainpc = "NewConfigManager"
    /\ mainCh = 0
    /\ ctxDone = FALSE
    /\ exit = "running"
    /\ sig = "none"
    /\ desk = EmptyMap
    /\ last = NoStep
    /\ reloadLog = <<>>
    /\ unseen = 0
    /\ reloads = 0
    /\ starter = "none"
    /\ nEdits = 0
    /\ nEvents = 0

SharedDirNext ==
    \/ NewConfigManager
    \/ NewFsManager
    \/ StartWatchers
    \/ WatchInit
    \/ WatchEvent
    \/ \E f \in SharedDirFiles : Edit(f)
    \/ reloadWatchersCancel
    \/ reloadWatchersSpawn
    \/ \E i \in DOMAIN loops : startWatchingInit(i)
    \/ \E i \in DOMAIN loops : startWatchingDone(i)
    \/ \E i \in DOMAIN loops : startWatchingCreate(i, TRUE, TRUE)
    \/ AppEvent(Event("/a/Foo.AppImage", {"Create"}))

SharedDirSpec == SharedDirInit /\ [][SharedDirNext]_vars

\* the loops that reconciliations have started
StartedByReconciler == {i \in DOMAIN loops : loops[i].ctx = "own"}

\* C23: after the one reconciliation of a first reload, the map of current
\* watchers holds the cancel function of every loop it has started, each
\* under an entry of its own, also when two rules name the same source
\* directory.
C23_MapHoldsEveryStartedLoop ==
    (Running /\ reloads = 1 /\ tasks.cancel = 0 /\ tasks.spawn = 0)
        => /\ StartedByReconciler \subseteq Held
           /\ Cardinality(DOMAIN currentWatchers) = Cardinality(StartedByReconciler)

\* startup is over and every change of the configuration has been reloaded
\* and reconciled; every loop that was started has subscribed
Settled ==
    /\ Running
    /\ mainpc \notin {"NewConfigManager", "NewFsManager", "StartWatchers"}
    /\ cmq = <<>> /\ unseen = 0
    /\ tasks.cancel = 0 /\ tasks.spawn = 0
    /\ \A i \in DOMAIN loops : loops[i].pc # "init"

\* the loops to which this step delivers a directory event
Receivers ==
    {i \in DOMAIN loops : Len(loops'[i].q) > Len(loops[i].q)}

\* the rules of the current configuration that name the source directory dir
RulesOn(dir) ==
    {k \in DOMAIN conf.Watcher : conf.Watcher[k].AppPath = dir}

\* C24: once startup and the reloads are over, an event in a source
\* directory that exactly one rule of the current configuration names goes
\* to exactly one loop, the loop of that rule: one entry is written or
\* removed and one refresh is run, in the output directory of the current
\* rule and in no output directory of a rule that has been replaced.
C24_OneLoopHandlesEachEvent ==
    [][(Settled /\ nEvents' = nEvents + 1) =>
          \A i \in Receivers :
              Cardinality(RulesOn(loops[i].rule.AppPath)) = 1 =>
                  /\ Cardinality(Receivers) = 1
                  /\ \E k \in DOMAIN conf.Watcher : conf.Watcher[k] = loops[i].rule]_vars

====
